---- MODULE Spec2Model ----
(***************************************************************************)
(* The outer generator graph of langgraph_system_generator: the stage      *)
(* functions of generator/nodes.py, the two branch functions and the graph *)
(* topology of generator/graph.py, and the checks of QARepairAgent.        *)
(*                                                                         *)
(* A cell's content is modelled by the set of marker words that occur in   *)
(* it as substrings: the checks only ever test `word in content`.          *)
(***************************************************************************)
EXTENDS Integers, Sequences, FiniteSets, TLC

\* ------------------------------------------------------------------ bounds
\* settings.max_repair_attempts ranges over 0..MaxAttemptsBound
MaxAttemptsBound == 2
\* compose_notebook returns at most MaxCells cells
MaxCells == 2
\* a caller makes at most MaxCalls calls on the validator and the repair agent
MaxCalls == 2

\* --------------------------------------------------------------- constants
\* QARepairAgent._check_no_placeholders: placeholders, in the order scanned
placeholders == <<"TODO", "FIXME", "PLACEHOLDER">>
\* QARepairAgent._check_has_imports: required_imports, in the order scanned
required_imports == <<"langgraph", "StateGraph">>
\* found_placeholders[:3]
MessageItems == 3
\* missing_imports[:2]
SuggestionItems == 2

\* The cells compose_notebook may return are built from these
CellAlphabet ==
    { [cell_type |-> "markdown", content |-> {}],
      [cell_type |-> "markdown", content |-> {"TODO"}],
      [cell_type |-> "code",     content |-> {}],
      [cell_type |-> "code",     content |-> {"langgraph", "StateGraph"}],
      [cell_type |-> "code",     content |-> {"TODO", "langgraph", "StateGraph"}] }

RECURSIVE SeqsUpTo(_, _)
SeqsUpTo(S, n) ==
    IF n = 0 THEN { <<>> }
    ELSE LET shorter == SeqsUpTo(S, n - 1)
         IN  shorter \cup { Append(s, x) : s \in shorter, x \in S }

CellChoices == SeqsUpTo(CellAlphabet, MaxCells)

\* What a generative-model call can do: raise, or return one of these texts
LLMResponses == {"raise", "not_json", "json_object", "json_array", "json_array_bad_items"}
\* The architecture_type a well-formed architecture reply can carry
ArchitectureTypes == {"router", "subagents", "hybrid"}
\* The state of the vector store on disk
IndexStates == {"available", "missing", "corrupt", "no_embeddings"}

VARIABLES
    pc,                         \* the node the graph runs next, "END", or "raised"
    hist,                       \* the nodes that have returned, in order
    exc,                        \* the exception that left graph.ainvoke, or "None"
    max_repair_attempts,        \* settings.max_repair_attempts
    index_state,                \* the vector store the retriever finds
    constraints,
    selected_patterns,
    docs_context,
    notebook_plan,
    architecture_justification,
    architecture_type,
    workflow_design,
    tools_plan,
    generated_cells,
    qa_reports,
    repair_attempts,
    artifacts_manifest,
    generation_complete,
    error_message,
    nb_file,                    \* the notebook file at notebook_path
    nb,                         \* the cells of the notebook loaded from it
    max_attempts,               \* NotebookRepairAgent.max_attempts
    nb_reports,                 \* the reports the caller of the agent holds
    nb_last,                    \* the last call on validator or agent
    nb_calls                    \* how many calls have been made

vars == << pc, hist, exc, max_repair_attempts, index_state, constraints,
           selected_patterns, docs_context, notebook_plan,
           architecture_justification, architecture_type, workflow_design,
           tools_plan, generated_cells, qa_reports, repair_attempts,
           artifacts_manifest, generation_complete, error_message,
           nb_file, nb, max_attempts, nb_reports, nb_last, nb_calls >>
nbvars == << nb_file, nb, max_attempts, nb_reports, nb_last, nb_calls >>

\* ------------------------------------------------------------ QARepairAgent
Range(s) == { s[i] : i \in 1..Len(s) }

Prefix(s, n) == SubSeq(s, 1, IF Len(s) < n THEN Len(s) ELSE n)

RECURSIVE Filter(_, _)
\* [x for x in s if x in keep]
Filter(s, keep) ==
    IF s = <<>> THEN <<>>
    ELSE IF Head(s) \in keep THEN <<Head(s)>> \o Filter(Tail(s), keep)
         ELSE Filter(Tail(s), keep)

QAReport(name, ok, text, items, sugg) ==
    [check_name |-> name, passed |-> ok, message |-> [text |-> text, items |-> items],
     suggestions |-> sugg]

\* the placeholders of one cell, in list order, each tagged with the cell index
PlaceholdersIn(cell, i) ==
    LET hit == Filter(placeholders, cell.content)
    IN  [k \in 1..Len(hit) |-> [cell |-> <<i>>, name |-> hit[k]]]

RECURSIVE FoundPlaceholders(_, _)
\* found_placeholders after scanning cells[i..]; i is the 0-based cell index
FoundPlaceholders(cells, i) ==
    IF i >= Len(cells) THEN <<>>
    ELSE (IF cells[i + 1].cell_type = "code" THEN PlaceholdersIn(cells[i + 1], i) ELSE <<>>)
         \o FoundPlaceholders(cells, i + 1)

_check_no_placeholders(cells) ==
    LET found_placeholders == FoundPlaceholders(cells, 0)
    IN  IF found_placeholders # <<>>
        THEN QAReport("No Placeholders", FALSE, "Found placeholders",
                      Prefix(found_placeholders, MessageItems),
                      <<"Replace TODO comments with actual implementations",
                        "Remove FIXME markers">>)
        ELSE QAReport("No Placeholders", TRUE, "No critical placeholders found", <<>>, <<>>)

_check_basic_structure(cells) ==
    LET has_markdown == \E i \in 1..Len(cells) : cells[i].cell_type = "markdown"
        has_code     == \E i \in 1..Len(cells) : cells[i].cell_type = "code"
    IN  IF ~has_markdown \/ ~has_code
        THEN QAReport("Basic Structure", FALSE, "Notebook missing markdown or code cells",
                      <<>>, <<"Add both markdown and code cells for proper structure">>)
        ELSE QAReport("Basic Structure", TRUE, "Notebook has proper cell structure", <<>>, <<>>)

\* the words occurring in "\n".join(code cell contents)
AllCode(cells) ==
    UNION { cells[i].content : i \in { j \in 1..Len(cells) : cells[j].cell_type = "code" } }

_check_has_imports(cells) ==
    LET all_code == AllCode(cells)
        missing  == Filter(required_imports, Range(required_imports) \ all_code)
        missing_imports == [k \in 1..Len(missing) |-> [cell |-> <<>>, name |-> missing[k]]]
    IN  IF missing_imports # <<>>
        THEN QAReport("Required Imports", FALSE, "Missing imports", missing_imports,
                      [k \in 1..Len(Prefix(missing, SuggestionItems)) |-> "Add import"])
        ELSE QAReport("Required Imports", TRUE, "All required imports present", <<>>, <<>>)

validate(cells) ==
    << _check_no_placeholders(cells), _check_basic_structure(cells), _check_has_imports(cells) >>

\* [r for r in qa_reports if not r.passed]
FailedReports(reports) == SelectSeq(reports, LAMBDA r : ~r.passed)

\* all(r.passed for r in reports)
AllPassed(reports) == \A i \in 1..Len(reports) : reports[i].passed


\* ------------------------------------------------------------------ state
\* The GeneratorState the branch functions and nodes are handed
State ==
    [ constraints |-> constraints, selected_patterns |-> selected_patterns,
      docs_context |-> docs_context, notebook_plan |-> notebook_plan,
      architecture_justification |-> architecture_justification,
      architecture_type |-> architecture_type, workflow_design |-> workflow_design,
      tools_plan |-> tools_plan, generated_cells |-> generated_cells,
      qa_reports |-> qa_reports, repair_attempts |-> repair_attempts,
      artifacts_manifest |-> artifacts_manifest,
      generation_complete |-> generation_complete, error_message |-> error_message ]

NoPlan == [is_set |-> FALSE, cell_count_estimate |-> 0, patterns_used |-> <<>>,
           architecture_type |-> "None"]
NoDesign == [kind |-> "None", nodes |-> 0]
NoManifest == [is_set |-> FALSE, cell_count |-> 0, architecture_type |-> "None",
               constraints_count |-> 0]

NoReport == QAReport("None", TRUE, "", <<>>, <<>>)

\* the record of the last call: its arguments and what it did
NoCall ==
    [op |-> "None", faults |-> {}, attempt |-> 0, write_failed |-> FALSE, report |-> NoReport,
     qa_reports |-> <<>>, file |-> [kind |-> "missing", cells |-> <<>>], cells |-> <<>>,
     exception |-> "None", success |-> FALSE, reports |-> <<>>, repaired |-> FALSE,
     read |-> FALSE, applied |-> <<>>, wrote |-> FALSE, validated |-> FALSE,
     again |-> FALSE]

\* no notebook is being validated or repaired
NoNotebook ==
    /\ nb_file = [kind |-> "missing", cells |-> <<>>]
    /\ nb = <<>>
    /\ max_attempts = 0
    /\ nb_reports = <<>>
    /\ nb_last = NoCall
    /\ nb_calls = 0

Init ==
    /\ pc = "intake"
    /\ hist = <<>>
    /\ exc = "None"
    /\ max_repair_attempts \in 0..MaxAttemptsBound
    /\ index_state \in IndexStates
    /\ constraints = <<>>
    /\ selected_patterns = [primary |-> "None"]
    /\ docs_context = <<>>
    /\ notebook_plan = NoPlan
    /\ architecture_justification = ""
    /\ architecture_type = "None"
    /\ workflow_design = NoDesign
    /\ tools_plan = "None"
    /\ generated_cells = <<>>
    /\ qa_reports = <<>>
    /\ repair_attempts = 0
    /\ artifacts_manifest = NoManifest
    /\ generation_complete = FALSE
    /\ error_message = "None"
    /\ NoNotebook

\* ------------------------------------------------------- branch functions
\* should_repair without the budget test: any failure fails the run
should_repair_NoBudget(state) ==
    IF FailedReports(state.qa_reports) = <<>> THEN "package" ELSE "fail"

\* should_repair with > in place of >=
should_repair_OffByOne(state) ==
    LET failed_reports == FailedReports(state.qa_reports)
    IN  IF failed_reports = <<>> THEN "package"
        ELSE IF state.repair_attempts > max_repair_attempts THEN "fail"
        ELSE "repair"

should_repair(state) ==
    LET failed_reports == FailedReports(state.qa_reports)
    IN  IF failed_reports = <<>> THEN "package"
        ELSE IF state.repair_attempts >= max_repair_attempts THEN "fail"
        ELSE "repair"

check_repair_success(state) ==
    IF state.repair_attempts < max_repair_attempts THEN "retry_qa"
    ELSE IF Len(state.generated_cells) > 0 THEN "success"
    ELSE "fail"

\* the edge map with "fail" wired to package_outputs
AfterRuntimeQA_FailPackaged(state) ==
    LET d == should_repair(state)
    IN  IF d = "repair" THEN "repair" ELSE "package_outputs"

\* add_conditional_edges("runtime_qa", should_repair, {...})
AfterRuntimeQA(state) ==
    LET d == should_repair(state)
    IN  IF d = "repair" THEN "repair"
        ELSE IF d = "package" THEN "package_outputs"
        ELSE "END"

\* the edge map with "retry_qa" wired past static_qa
AfterRepair_SkipStatic(state) ==
    LET d == check_repair_success(state)
    IN  IF d = "retry_qa" THEN "runtime_qa"
        ELSE IF d = "success" THEN "package_outputs"
        ELSE "END"

\* add_conditional_edges("repair", check_repair_success, {...})
AfterRepair(state) ==
    LET d == check_repair_success(state)
    IN  IF d = "retry_qa" THEN "static_qa"
        ELSE IF d = "success" THEN "package_outputs"
        ELSE "END"

\* ------------------------------------------------------------------ nodes
\* every state field, for UNCHANGED
fields == << constraints, selected_patterns, docs_context, notebook_plan,
             architecture_justification, architecture_type, workflow_design,
             tools_plan, generated_cells, qa_reports, repair_attempts,
             artifacts_manifest, generation_complete, error_message >>
env == << max_repair_attempts, index_state >>

\* an exception leaves the node and graph.ainvoke; no update is merged
Raise(e) ==
    /\ pc' = "raised"
    /\ exc' = e
    /\ UNCHANGED << hist, env, fields, nbvars >>

\* the node returned: the graph moves on to `next`
Return(node, next) ==
    /\ pc' = next
    /\ hist' = Append(hist, node)
    /\ UNCHANGED << exc, env, nbvars >>

FallbackConstraints == << [type |-> "goal", value |-> "prompt", priority |-> 5] >>
ParsedConstraints == << [type |-> "goal", value |-> "llm", priority |-> 5] >>

\* RequirementsAnalyst.analyze: "raised:<E>" or the constraint list returned
analyze(resp) ==
    IF resp = "raise" THEN [raised |-> "APIError", value |-> <<>>]
    ELSE IF resp = "json_array" THEN [raised |-> "None", value |-> ParsedConstraints]
    ELSE IF resp = "json_array_bad_items" THEN [raised |-> "ValidationError", value |-> <<>>]
    ELSE [raised |-> "None", value |-> FallbackConstraints]

intake_node ==
    /\ pc = "intake"
    /\ \E resp \in LLMResponses :
         LET r == analyze(resp)
         IN  IF r.raised # "None" THEN Raise(r.raised)
             ELSE /\ constraints' = constraints \o r.value
                  /\ Return("intake", "rag_retrieval")
                  /\ UNCHANGED << selected_patterns, docs_context, notebook_plan,
                                  architecture_justification, architecture_type,
                                  workflow_design, tools_plan, generated_cells,
                                  qa_reports, repair_attempts, artifacts_manifest,
                                  generation_complete, error_message >>

\* DocsRetriever.retrieve: "raised:<E>" or the snippets returned
retrieve(idx) ==
    IF idx = "missing" THEN [raised |-> "None", value |-> <<>>]
    ELSE IF idx = "corrupt" THEN [raised |-> "ValueError", value |-> <<>>]
    ELSE [raised |-> "None", value |-> <<"snippet">>]

rag_retrieval_node ==
    /\ pc = "rag_retrieval"
    /\ LET r == IF index_state = "no_embeddings"
                THEN [raised |-> "Exception", value |-> <<>>]
                ELSE retrieve(index_state)
           docs == IF r.raised # "None" THEN <<>> ELSE r.value
       IN  docs_context' = docs_context \o docs
    /\ Return("rag_retrieval", "architecture_selection")
    /\ UNCHANGED << constraints, selected_patterns, notebook_plan,
                    architecture_justification, architecture_type, workflow_design,
                    tools_plan, generated_cells, qa_reports, repair_attempts,
                    artifacts_manifest, generation_complete, error_message >>


\* ArchitectureSelector.select_architecture: the pattern documents are looked
\* up first (when a retriever was built), then the model is asked
select_architecture(has_retriever, idx, resp, t) ==
    IF has_retriever /\ retrieve(idx).raised # "None"
    THEN [raised |-> retrieve(idx).raised, kind |-> "None", architecture_type |-> "None"]
    ELSE IF resp = "raise"
    THEN [raised |-> "APIError", kind |-> "None", architecture_type |-> "None"]
    ELSE IF resp = "json_object"
    THEN [raised |-> "None", kind |-> "dict", architecture_type |-> t]
    ELSE IF resp = "not_json"
    THEN [raised |-> "None", kind |-> "fallback", architecture_type |-> "router"]
    ELSE [raised |-> "None", kind |-> "list", architecture_type |-> "None"]

architecture_selection_node ==
    /\ pc = "architecture_selection"
    /\ \E resp \in LLMResponses, t \in ArchitectureTypes :
         LET has_retriever == index_state # "no_embeddings"
             architecture  == select_architecture(has_retriever, index_state, resp, t)
         IN  IF architecture.raised # "None" THEN Raise(architecture.raised)
             ELSE IF architecture.kind = "list" THEN Raise("AttributeError")
             ELSE /\ selected_patterns' = [primary |-> architecture.architecture_type]
                  /\ architecture_type' = architecture.architecture_type
                  /\ architecture_justification' =
                         (IF architecture.kind = "fallback" THEN "fallback" ELSE "llm")
                  /\ Return("architecture_selection", "graph_design")
                  /\ UNCHANGED << constraints, docs_context, notebook_plan,
                                  workflow_design, tools_plan, generated_cells,
                                  qa_reports, repair_attempts, artifacts_manifest,
                                  generation_complete, error_message >>

\* nodes in the design the model returns when it answers well
LLMDesignNodes == 2
\* nodes in either fallback design
FallbackDesignNodes == 3

_fallback_design(t) ==
    IF t = "subagents" THEN [kind |-> "fallback_subagents", nodes |-> FallbackDesignNodes]
    ELSE [kind |-> "fallback_router", nodes |-> FallbackDesignNodes]

\* GraphDesigner.design_workflow
design_workflow(t, resp) ==
    IF resp = "raise" THEN [raised |-> "APIError", kind |-> "None", value |-> NoDesign]
    ELSE IF resp = "json_object"
    THEN [raised |-> "None", kind |-> "dict", value |-> [kind |-> "llm", nodes |-> LLMDesignNodes]]
    ELSE IF resp = "not_json"
    THEN [raised |-> "None", kind |-> "dict", value |-> _fallback_design(t)]
    ELSE [raised |-> "None", kind |-> "list", value |-> NoDesign]

\* selected_patterns.get("primary", "router")
Primary(patterns) == IF patterns.primary = "None" THEN "router" ELSE patterns.primary

graph_design_node ==
    /\ pc = "graph_design"
    /\ \E resp \in LLMResponses :
         LET t == IF architecture_type = "None" THEN Primary(selected_patterns)
                  ELSE architecture_type
             d == design_workflow(t, resp)
         IN  IF d.raised # "None" THEN Raise(d.raised)
             ELSE IF d.kind = "list" THEN Raise("AttributeError")
             ELSE /\ workflow_design' = d.value
                  /\ notebook_plan' =
                         [is_set |-> TRUE,
                          cell_count_estimate |-> d.value.nodes * 3 + 10,
                          patterns_used |-> << Primary(selected_patterns) >>,
                          architecture_type |-> t]
                  /\ Return("graph_design", "tooling_plan")
                  /\ UNCHANGED << constraints, selected_patterns, docs_context,
                                  architecture_justification, architecture_type,
                                  tools_plan, generated_cells, qa_reports,
                                  repair_attempts, artifacts_manifest,
                                  generation_complete, error_message >>

\* ToolchainEngineer.plan_tools
plan_tools(resp) ==
    IF resp = "raise" THEN [raised |-> "APIError", value |-> "None"]
    ELSE IF resp = "not_json" THEN [raised |-> "None", value |-> "empty"]
    ELSE IF resp = "json_object" THEN [raised |-> "None", value |-> "llm_object"]
    ELSE [raised |-> "None", value |-> "llm_array"]

tooling_plan_node ==
    /\ pc = "tooling_plan"
    /\ \E resp \in LLMResponses :
         LET tools == plan_tools(resp)
         IN  IF tools.raised # "None" THEN Raise(tools.raised)
             ELSE /\ tools_plan' = tools.value
                  /\ Return("tooling_plan", "notebook_assembly")
                  /\ UNCHANGED << constraints, selected_patterns, docs_context,
                                  notebook_plan, architecture_justification,
                                  architecture_type, workflow_design, generated_cells,
                                  qa_reports, repair_attempts, artifacts_manifest,
                                  generation_complete, error_message >>

\* NotebookComposer.compose_notebook: some list of cells
compose_notebook == CellChoices

notebook_assembly_node ==
    /\ pc = "notebook_assembly"
    /\ \E cells \in compose_notebook :
         generated_cells' = generated_cells \o cells
    /\ Return("notebook_assembly", "static_qa")
    /\ UNCHANGED << constraints, selected_patterns, docs_context, notebook_plan,
                    architecture_justification, architecture_type, workflow_design,
                    tools_plan, qa_reports, repair_attempts, artifacts_manifest,
                    generation_complete, error_message >>

\* return {"qa_reports": reports}: the pass replaces the earlier reports
static_qa_node_Replacing ==
    /\ pc = "static_qa"
    /\ LET cells == generated_cells
           reports == validate(cells)
       IN  qa_reports' = reports
    /\ Return("static_qa", "runtime_qa")
    /\ UNCHANGED << constraints, selected_patterns, docs_context, notebook_plan,
                    architecture_justification, architecture_type, workflow_design,
                    tools_plan, generated_cells, repair_attempts, artifacts_manifest,
                    generation_complete, error_message >>

static_qa_node ==
    /\ pc = "static_qa"
    /\ LET cells == generated_cells
           reports == validate(cells)
           existing_reports == qa_reports
       IN  qa_reports' = existing_reports \o reports
    /\ Return("static_qa", "runtime_qa")
    /\ UNCHANGED << constraints, selected_patterns, docs_context, notebook_plan,
                    architecture_justification, architecture_type, workflow_design,
                    tools_plan, generated_cells, repair_attempts, artifacts_manifest,
                    generation_complete, error_message >>

RuntimeReport ==
    QAReport("Runtime Check", TRUE, "Runtime checks placeholder (not yet implemented)",
             <<>>, <<>>)

runtime_qa_node ==
    /\ pc = "runtime_qa"
    /\ LET existing_reports == qa_reports
       IN  qa_reports' = Append(existing_reports, RuntimeReport)
    /\ Return("runtime_qa", AfterRuntimeQA([State EXCEPT !.qa_reports = qa_reports']))
    /\ UNCHANGED << constraints, selected_patterns, docs_context, notebook_plan,
                    architecture_justification, architecture_type, workflow_design,
                    tools_plan, generated_cells, repair_attempts, artifacts_manifest,
                    generation_complete, error_message >>

\* QARepairAgent.repair: the model is asked only when some report failed; its
\* answer is discarded and the cells come back as they were
repair(cells, reports, resp) ==
    IF FailedReports(reports) = <<>> THEN [raised |-> "None", value |-> cells]
    ELSE IF resp = "raise" THEN [raised |-> "APIError", value |-> cells]
    ELSE [raised |-> "None", value |-> cells]

\* state["repair_attempts"] + 2
IncrementedAttempts_Twice(state) == state.repair_attempts + 2

\* state["repair_attempts"] + 1
IncrementedAttempts(state) == state.repair_attempts + 1

\* repair_node returning the cells as well: operator.add appends them
repair_node_ReturnsCells ==
    /\ pc = "repair"
    /\ \E resp \in LLMResponses :
         LET r == repair(generated_cells, qa_reports, resp)
         IN  IF r.raised # "None" THEN Raise(r.raised)
             ELSE /\ repair_attempts' = IncrementedAttempts(State)
                  /\ generated_cells' = generated_cells \o r.value
                  /\ Return("repair",
                            AfterRepair([State EXCEPT !.repair_attempts = repair_attempts']))
                  /\ UNCHANGED << constraints, selected_patterns, docs_context,
                                  notebook_plan, architecture_justification,
                                  architecture_type, workflow_design, tools_plan,
                                  qa_reports, artifacts_manifest,
                                  generation_complete, error_message >>

repair_node ==
    /\ pc = "repair"
    /\ \E resp \in LLMResponses :
         LET r == repair(generated_cells, qa_reports, resp)
         IN  IF r.raised # "None" THEN Raise(r.raised)
             ELSE /\ repair_attempts' = IncrementedAttempts(State)
                  /\ Return("repair",
                            AfterRepair([State EXCEPT !.repair_attempts = repair_attempts']))
                  /\ UNCHANGED << constraints, selected_patterns, docs_context,
                                  notebook_plan, architecture_justification,
                                  architecture_type, workflow_design, tools_plan,
                                  generated_cells, qa_reports, artifacts_manifest,
                                  generation_complete, error_message >>

package_outputs_node ==
    /\ pc = "package_outputs"
    /\ artifacts_manifest' =
           [is_set |-> TRUE,
            cell_count |-> Len(generated_cells),
            architecture_type |-> (IF architecture_type # "None" THEN architecture_type
                                   ELSE Primary(selected_patterns)),
            constraints_count |-> Len(constraints)]
    /\ generation_complete' = TRUE
    /\ error_message' = "None"
    /\ Return("package_outputs", "END")
    /\ UNCHANGED << constraints, selected_patterns, docs_context, notebook_plan,
                    architecture_justification, architecture_type, workflow_design,
                    tools_plan, generated_cells, qa_reports, repair_attempts >>

Next ==
    \/ intake_node
    \/ rag_retrieval_node
    \/ architecture_selection_node
    \/ graph_design_node
    \/ tooling_plan_node
    \/ notebook_assembly_node
    \/ static_qa_node
    \/ runtime_qa_node
    \/ repair_node
    \/ package_outputs_node

Spec == Init /\ [][Next]_vars

\* every node that is ready runs: the graph never stops between two nodes
FairSpec == Spec /\ WF_vars(Next)


\* ===================================================================== text
\* Python's str operations, on strings as sequences of characters.

Whitespace == {" ", "\t", "\n", "\r"}
Char(s, i) == SubSeq(s, i, i)
From(s, i) == SubSeq(s, i, Len(s))

\* p in s
Contains(s, p) ==
    \E i \in 0..(Len(s) - Len(p)) : SubSeq(s, i + 1, i + Len(p)) = p

\* s.startswith(p)
StartsWith(s, p) == Len(p) <= Len(s) /\ SubSeq(s, 1, Len(p)) = p

\* the positions at which p occurs in s
Matches(s, p) == { i \in 1..(Len(s) - Len(p) + 1) : SubSeq(s, i, i + Len(p) - 1) = p }

Least(S) == CHOOSE i \in S : \A j \in S : i <= j

\* s.find(p) + 1, or 0 when p does not occur
Find(s, p) == LET at == Matches(s, p) IN IF at = {} THEN 0 ELSE Least(at)

RECURSIVE NonOverlapping(_, _, _)
\* of the positions at, each the start of a match of the given width, those
\* a scan from the left takes: the leftmost, then the leftmost after its end
NonOverlapping(at, width, from) ==
    LET rest == { i \in at : i >= from }
    IN  IF rest = {} THEN <<>>
        ELSE << Least(rest) >> \o NonOverlapping(rest, width, Least(rest) + width)

\* where s.count, s.split and s.replace find p in s, p non-empty
Occurrences(s, p) == NonOverlapping(Matches(s, p), Len(p), 1)

\* s.count(p), p non-empty
CountOf(s, p) == Len(Occurrences(s, p))

\* the pieces of s between the occurrences
Pieces(s, width, occ) ==
    <<>> \o [k \in 1..(Len(occ) + 1) |->
                SubSeq(s, IF k = 1 THEN 1 ELSE occ[k - 1] + width,
                          IF k = Len(occ) + 1 THEN Len(s) ELSE occ[k] - 1)]

\* s.split(sep), sep non-empty
Split(s, sep) == Pieces(s, Len(sep), Occurrences(s, sep))

\* s.splitlines(), for texts whose only line break is "\n"
SplitLines(s) ==
    IF s = "" THEN <<>>
    ELSE LET parts == Split(s, "\n")
         IN  IF parts[Len(parts)] = "" THEN SubSeq(parts, 1, Len(parts) - 1) ELSE parts

RECURSIVE Join(_, _)
\* sep.join(parts)
Join(parts, sep) ==
    IF parts = <<>> THEN ""
    ELSE IF Len(parts) = 1 THEN parts[1]
    ELSE parts[1] \o sep \o Join(Tail(parts), sep)

\* s.replace(old, new), old non-empty: leftmost occurrences, not overlapping
Replace(s, old, new) == Join(Split(s, old), new)

RECURSIVE LStrip(_)
LStrip(s) == IF s # "" /\ Char(s, 1) \in Whitespace THEN LStrip(From(s, 2)) ELSE s

RECURSIVE RStrip(_)
RStrip(s) ==
    IF s # "" /\ Char(s, Len(s)) \in Whitespace THEN RStrip(SubSeq(s, 1, Len(s) - 1)) ELSE s

Strip(s) == LStrip(RStrip(s))

UpperChars == "ABCDEFGHIJKLMNOPQRSTUVWXYZ"
LowerChars == "abcdefghijklmnopqrstuvwxyz"

IsUpper(c) == Contains(UpperChars, c) /\ Len(c) = 1
IsLower(c) == Contains(LowerChars, c) /\ Len(c) = 1
LowerChar(c) == IF IsUpper(c) THEN Char(LowerChars, Find(UpperChars, c)) ELSE c
UpperChar(c) == IF IsLower(c) THEN Char(UpperChars, Find(LowerChars, c)) ELSE c

RECURSIVE Lower(_)
\* s.lower()
Lower(s) == IF s = "" THEN "" ELSE LowerChar(Char(s, 1)) \o Lower(From(s, 2))

RECURSIVE TitleFrom(_, _)
TitleFrom(s, after_cased) ==
    IF s = "" THEN ""
    ELSE LET c == Char(s, 1)
             cased == IsUpper(c) \/ IsLower(c)
         IN  (IF after_cased THEN LowerChar(c) ELSE UpperChar(c))
             \o TitleFrom(From(s, 2), cased)

\* s.title()
Title(s) == TitleFrom(s, FALSE)

\* the characters of section names, in code-point order
CharOrder == " -0123456789ABCDEFGHIJKLMNOPQRSTUVWXYZ_abcdefghijklmnopqrstuvwxyz"

RECURSIVE StrLess(_, _)
\* a < b, the order sorted() uses
StrLess(a, b) ==
    IF b = "" THEN FALSE
    ELSE IF a = "" THEN TRUE
    ELSE IF Char(a, 1) = Char(b, 1) THEN StrLess(From(a, 2), From(b, 2))
    ELSE Find(CharOrder, Char(a, 1)) < Find(CharOrder, Char(b, 1))

RECURSIVE Sorted(_)
\* sorted(S) for a set of strings
Sorted(S) ==
    IF S = {} THEN <<>>
    ELSE LET least == CHOOSE x \in S : \A y \in S \ {x} : StrLess(x, y)
         IN  << least >> \o Sorted(S \ {least})

\* ======================================================== NotebookValidator
\* A notebook file is [kind, cells, writable]: kind is "missing" (no file at
\* the path), "not_json" (nbformat.read raises), "bad_schema" (nbformat.read
\* returns the notebook, nbformat.validate raises ValidationError) or "ok";
\* a cell is [cell_type, source, section], section "" when the metadata has
\* no truthy "section" entry, source NoSource when the cell's "source" is
\* null (nbformat.read returns such a notebook, its schema is invalid).

NoSource == "<None>"

PLACEHOLDER_PATTERNS ==
    << "TODO", "FIXME", "PLACEHOLDER", "...", "# Your code here", "pass  # implement" >>
REQUIRED_SECTIONS == << "setup", "config", "graph", "execution" >>
REQUIRED_IMPORTS == << "langgraph", "StateGraph", "END" >>

CheckNames == << "JSON Validity", "No Placeholders", "Required Sections",
                 "Required Imports", "Graph Compilation" >>

\* what a call does: return a value, or let an exception out
Returns(v) == [exception |-> "None", value |-> v]
Raises(e) == [exception |-> e, value |-> <<>>]

\* path.open succeeds; io_error is an OSError of the environment
Opens(file, io_error) == file.kind # "missing" /\ ~io_error
\* nbformat.read returns a notebook
Reads(file, io_error) == Opens(file, io_error) /\ file.kind # "not_json"

\* f.read() as far as substring tests see it: every source line and every
\* section value is a JSON string of its own
RawContent(file) ==
    Join([i \in 1..Len(file.cells) |->
             file.cells[i].section \o "\n" \o file.cells[i].source], "\n")

validate_json_structure(file, io_error) ==
    IF file.kind = "missing"
    THEN Returns(QAReport("JSON Validity", FALSE, "Notebook file not found: notebook_path", <<>>,
                  << "Ensure the notebook was generated and saved correctly" >>))
    ELSE IF io_error
    THEN Returns(QAReport("JSON Validity", FALSE, "Error reading notebook: OSError", <<>>,
                  << "Check file permissions and path" >>))
    ELSE IF file.kind = "not_json"
    THEN \* nbformat's NotJSONError is a ValueError: the last except clause
         Returns(QAReport("JSON Validity", FALSE, "Error reading notebook: NotJSONError", <<>>,
                  << "Check file permissions and path" >>))
    ELSE IF file.kind = "bad_schema"
    THEN Returns(QAReport("JSON Validity", FALSE, "Invalid notebook structure: ValidationError",
                  <<>>, << "Verify all required notebook fields are present",
                           "Check cell structure and metadata" >>))
    ELSE Returns(QAReport("JSON Validity", TRUE,
                  "Notebook JSON is valid and properly structured", <<>>, <<>>))

check_no_placeholders(file, io_error) ==
    IF ~Opens(file, io_error)
    THEN Returns(QAReport("No Placeholders", FALSE, "Error checking placeholders: OSError", <<>>,
                  << "Verify notebook file is readable" >>))
    ELSE LET content == RawContent(file)
             hits == SelectSeq(PLACEHOLDER_PATTERNS, LAMBDA pattern : Contains(content, pattern))
             found_placeholders ==
                 [k \in 1..Len(hits) |->
                     hits[k] \o " (" \o ToString(CountOf(content, hits[k])) \o "x)"]
         IN  IF found_placeholders # <<>>
             THEN Returns(QAReport("No Placeholders", FALSE,
                      "Found placeholders: " \o Join(found_placeholders, ", "), <<>>,
                      << "Replace all TODO/FIXME markers with actual implementation",
                         "Remove ellipsis (...) placeholders",
                         "Complete all code sections marked for implementation" >>))
             ELSE Returns(QAReport("No Placeholders", TRUE, "No placeholders found in notebook",
                      <<>>, <<>>))

check_required_sections(file, io_error) ==
    IF ~Reads(file, io_error)
    THEN Returns(QAReport("Required Sections", FALSE, "Error checking sections: OSError", <<>>,
                  << "Verify notebook structure and metadata" >>))
    ELSE LET present_sections ==
                 { file.cells[i].section : i \in 1..Len(file.cells) } \ { "" }
             missing_sections == Range(REQUIRED_SECTIONS) \ present_sections
         IN  IF missing_sections # {}
             THEN Returns(QAReport("Required Sections", FALSE,
                      "Missing required sections: " \o Join(Sorted(missing_sections), ", "),
                      <<>>,
                      << "Add cells with section metadata for: "
                             \o Join(Sorted(missing_sections), ", "),
                         "Ensure minimum required sections are present" >>))
             ELSE Returns(QAReport("Required Sections", TRUE,
                      "All required sections present: "
                          \o Join(Sorted(present_sections), ", "), <<>>, <<>>))

\* [cell for cell in nb.cells if cell.cell_type == "code"]
CodeCells(cells) == SelectSeq(cells, LAMBDA cell : cell.cell_type = "code")

check_imports_present(file, io_error) ==
    IF ~Reads(file, io_error)
    THEN Returns(QAReport("Required Imports", FALSE, "Error checking imports: OSError", <<>>,
                  << "Verify notebook can be read and parsed" >>))
    ELSE LET code == CodeCells(file.cells)
             code_content == Join([i \in 1..Len(code) |-> code[i].source \o "\n"], "")
             missing_imports ==
                 SelectSeq(REQUIRED_IMPORTS, LAMBDA imp : ~Contains(code_content, imp))
         IN  IF missing_imports # <<>>
             THEN Returns(QAReport("Required Imports", FALSE,
                      "Missing required imports: " \o Join(missing_imports, ", "), <<>>,
                      << "Add import statements for: " \o Join(missing_imports, ", "),
                         "Ensure all LangGraph dependencies are imported",
                         "Check setup/installation cells for missing imports" >>))
             ELSE Returns(QAReport("Required Imports", TRUE, "All required imports are present",
                      <<>>, <<>>))

\* ---- compile(all_code, "<notebook>", "exec"): TRUE when no SyntaxError is
\* raised.  The grammar is the fragment the notebooks' code uses: comments,
\* one-line statements and block headers with indented bodies.
Indent(line) == Len(line) - Len(LStrip(line))
IsBlankOrComment(line) == Strip(line) = "" \/ StartsWith(Strip(line), "#")
EndsWith(line, c) == RStrip(line) # "" /\ Char(RStrip(line), Len(RStrip(line))) = c
Statements(lines) == { i \in 1..Len(lines) : ~IsBlankOrComment(lines[i]) }
\* among the statements, the one before / after line i, 0 if none
PrevStatement(statements, i) ==
    LET before == { j \in statements : j < i }
    IN  IF before = {} THEN 0 ELSE CHOOSE j \in before : \A k \in before : k <= j
NextStatement(statements, i) ==
    LET after == { j \in statements : j > i }
    IN  IF after = {} THEN 0 ELSE CHOOSE j \in after : \A k \in after : j <= k

compile(all_code) ==
    LET lines == Split(all_code, "\n")
        statements == Statements(lines)
        code == Join([i \in 1..Len(lines) |->
                         IF i \in statements THEN lines[i] ELSE ""], "\n")
    IN  /\ CountOf(code, "(") = CountOf(code, ")")
        /\ \A i \in statements :
              LET prev == PrevStatement(statements, i)
                  next == NextStatement(statements, i)
              IN  \* an assignment needs a right-hand side
                  /\ ~EndsWith(lines[i], "=")
                  \* a block header needs an indented body
                  /\ EndsWith(lines[i], ":")
                        => next # 0 /\ Indent(lines[next]) > Indent(lines[i])
                  \* only a block header may be followed by deeper indentation
                  /\ IF prev = 0 THEN Indent(lines[i]) = 0
                     ELSE Indent(lines[i]) > Indent(lines[prev]) => EndsWith(lines[prev], ":")

\* check_graph_compiles without its try/except: the OSError leaves the check
check_graph_compiles_Unguarded(file, io_error) ==
    IF ~Reads(file, io_error) THEN Raises("OSError")
    ELSE Returns(QAReport("Graph Compilation", TRUE,
             "Notebook code compiles and contains proper graph construction", <<>>, <<>>))

check_graph_compiles(file, io_error) ==
    IF ~Reads(file, io_error)
    THEN Returns(QAReport("Graph Compilation", FALSE, "Error checking graph compilation: OSError",
                  <<>>, << "Verify notebook structure and code cells" >>))
    ELSE LET code_cells == CodeCells(file.cells)
             all_code == Join([i \in 1..Len(code_cells) |-> code_cells[i].source], "\n\n")
         IN  IF code_cells = <<>>
             THEN Returns(QAReport("Graph Compilation", FALSE, "No code cells found in notebook",
                      <<>>, << "Add code cells to implement the graph" >>))
             ELSE IF ~compile(all_code)
             THEN Returns(QAReport("Graph Compilation", FALSE,
                      "Syntax error in notebook code: invalid syntax at line n", <<>>,
                      << "Fix syntax errors in the code cells",
                         "Check for missing colons, parentheses, or indentation issues",
                         "Validate Python syntax before generating notebook" >>))
             ELSE IF ~Contains(all_code, "StateGraph")
             THEN Returns(QAReport("Graph Compilation", FALSE,
                      "No StateGraph construction found in notebook", <<>>,
                      << "Add StateGraph construction code",
                         "Ensure LangGraph is properly used" >>))
             ELSE IF ~Contains(all_code, ".compile()")
             THEN Returns(QAReport("Graph Compilation", FALSE,
                      "Graph compilation step (.compile()) not found", <<>>,
                      << "Add graph.compile() call to compile the workflow",
                         "Ensure the graph is compiled before execution" >>))
             ELSE Returns(QAReport("Graph Compilation", TRUE,
                      "Notebook code compiles and contains proper graph construction",
                      <<>>, <<>>))

\* the first exception among the calls, "None" if all returned
FirstException(calls) ==
    LET raising == { i \in 1..Len(calls) : calls[i].exception # "None" }
    IN  IF raising = {} THEN "None"
        ELSE calls[CHOOSE i \in raising : \A j \in raising : i <= j].exception

\* validate_all that runs every check whatever the structural check says
validate_all_NoSkip(file, faults) ==
    LET calls == << validate_json_structure(file, "JSON Validity" \in faults),
                    check_no_placeholders(file, "No Placeholders" \in faults),
                    check_required_sections(file, "Required Sections" \in faults),
                    check_imports_present(file, "Required Imports" \in faults),
                    check_graph_compiles(file, "Graph Compilation" \in faults) >>
    IN  Returns([i \in 1..Len(calls) |-> calls[i].value])

\* faults: the checks in which opening the file raises OSError
validate_all(file, faults) ==
    LET json_report == validate_json_structure(file, "JSON Validity" \in faults)
        rest == << check_no_placeholders(file, "No Placeholders" \in faults),
                   check_required_sections(file, "Required Sections" \in faults),
                   check_imports_present(file, "Required Imports" \in faults),
                   check_graph_compiles(file, "Graph Compilation" \in faults) >>
    IN  IF json_report.exception # "None" THEN Raises(json_report.exception)
        ELSE IF ~json_report.value.passed THEN Returns(<< json_report.value >>)
        ELSE IF FirstException(rest) # "None" THEN Raises(FirstException(rest))
        ELSE Returns(<< json_report.value >> \o [i \in 1..Len(rest) |-> rest[i].value])

\* ====================================================== NotebookRepairAgent
\* A rule works on the cells of the loaded notebook and returns
\* [repaired, cells]: its return value and the notebook it leaves behind.

\* re.search(prefix + "(.+)", message): the group, when there is a match
SearchGroup(message, prefix) ==
    LET hits == { i \in Matches(message, prefix) :
                     /\ i + Len(prefix) <= Len(message)
                     /\ Char(message, i + Len(prefix)) # "\n" }
        rest == From(message, Least(hits) + Len(prefix))
        nl   == Find(rest, "\n")
    IN  IF hits = {} THEN [matched |-> FALSE, group |-> ""]
        ELSE [matched |-> TRUE, group |-> IF nl = 0 THEN rest ELSE SubSeq(rest, 1, nl - 1)]

\* [x.strip() for x in text.split(",")]
StrippedItems(text) ==
    LET parts == Split(text, ",") IN [k \in 1..Len(parts) |-> Strip(parts[k])]

ReplaceAt(cells, i, source) == [cells EXCEPT ![i] = [@ EXCEPT !.source = source]]

\* the five replacements, in the order of the dict
PlaceholderReplacements(text) ==
    LET a == Replace(text, "TODO", "")
        b == Replace(a, "FIXME", "")
        c == Replace(b, "PLACEHOLDER", "")
        d == Replace(c, "# Your code here", "pass")
    IN  Replace(d, "pass  # implement", "pass")

IsEllipsisLine(line) == Strip(line) \in { "...", "# ..." }

RECURSIVE CollapseBlankLines(_)
\* while "\n\n\n" in modified: modified = modified.replace("\n\n\n", "\n\n")
CollapseBlankLines(text) ==
    IF Contains(text, "\n\n\n") THEN CollapseBlankLines(Replace(text, "\n\n\n", "\n\n"))
    ELSE text

\* the body of the loop of _repair_placeholders for one code cell
RepairPlaceholderCell(original) ==
    LET replaced == PlaceholderReplacements(original)
        lines    == Split(replaced, "\n")
        filtered == Join(SelectSeq(lines, LAMBDA line : ~IsEllipsisLine(line)), "\n")
        modified == CollapseBlankLines(filtered)
    IN  [repaired |-> \/ replaced # original
                      \/ \E k \in 1..Len(lines) : IsEllipsisLine(lines[k])
                      \/ Contains(filtered, "\n\n\n"),
         source   |-> modified]

_repair_placeholders(cells) ==
    LET fixed == [i \in 1..Len(cells) |->
                     IF cells[i].cell_type = "code"
                     THEN RepairPlaceholderCell(cells[i].source)
                     ELSE [repaired |-> FALSE, source |-> cells[i].source]]
    IN  [repaired |-> \E i \in 1..Len(cells) : fixed[i].repaired,
         cells    |-> [i \in 1..Len(cells) |-> [cells[i] EXCEPT !.source = fixed[i].source]]]

\* `word` and the whitespace \s+ after it, at the start of s: what follows
\* the word, or no match
SkipWord(s, word) ==
    IF StartsWith(s, word) /\ Len(s) > Len(word) /\ Char(s, Len(word) + 1) \in Whitespace
    THEN [ok |-> TRUE, rest |-> From(s, Len(word) + 1)]
    ELSE [ok |-> FALSE, rest |-> ""]

\* the groups, given the whitespace-led text after "import" and its strip
ImportGroups(line, after_import, names_str) ==
    IF names_str # ""
    THEN [matched |-> TRUE, prefix |-> SubSeq(line, 1, Len(line) - Len(names_str)),
          names_str |-> names_str]
    \* only whitespace follows: the last \s+ gives its last character to (.+)
    ELSE IF Len(after_import) >= 2
    THEN [matched |-> TRUE, prefix |-> SubSeq(line, 1, Len(line) - 1),
          names_str |-> Char(line, Len(line))]
    ELSE [matched |-> FALSE, prefix |-> "", names_str |-> ""]

ImportTail(line, import) ==
    IF import.ok THEN ImportGroups(line, import.rest, LStrip(import.rest))
    ELSE [matched |-> FALSE, prefix |-> "", names_str |-> ""]

\* re.match(r"^(\s*from\s+langgraph\.graph\s+import\s+)(.+)$", line)
MatchImport(line) ==
    ImportTail(line,
        SkipWord(LStrip(SkipWord(LStrip(SkipWord(LStrip(line), "from").rest),
                                 "langgraph.graph").rest),
                 "import"))

\* if needed and name not in names: names.append(name)
AddName(names, needed, name) ==
    IF needed /\ name \notin Range(names) THEN Append(names, name) ELSE names

RECURSIVE ConsolidateImports(_, _, _, _, _)

\* the end of one iteration: break when nothing is needed any more
ConsolidateNext(lines, i, needs_stategraph, needs_end, updated) ==
    IF ~(needs_stategraph \/ needs_end)
    THEN [lines |-> lines, needs_stategraph |-> FALSE, needs_end |-> FALSE,
          updated |-> updated]
    ELSE ConsolidateImports(lines, i + 1, needs_stategraph, needs_end, updated)

\* one iteration on a matching line, names being the names it imports
ConsolidateLine(lines, i, needs_stategraph, needs_end, updated, prefix, names) ==
    ConsolidateNext(
        [lines EXCEPT ![i] =
            prefix \o Join(AddName(AddName(names, needs_stategraph, "StateGraph"),
                                   needs_end, "END"), ", ")],
        i,
        needs_stategraph /\ "StateGraph" \in Range(names),
        needs_end /\ "END" \in Range(AddName(names, needs_stategraph, "StateGraph")),
        \/ updated
        \/ needs_stategraph /\ "StateGraph" \notin Range(names)
        \/ needs_end /\ "END" \notin Range(AddName(names, needs_stategraph, "StateGraph")))

ConsolidateMatch(lines, i, needs_stategraph, needs_end, updated, match_import) ==
    IF ~match_import.matched
    THEN ConsolidateImports(lines, i + 1, needs_stategraph, needs_end, updated)
    ELSE ConsolidateLine(lines, i, needs_stategraph, needs_end, updated, match_import.prefix,
             SelectSeq(StrippedItems(match_import.names_str), LAMBDA n : n # ""))

\* the loop over the lines of the first code cell, from line i on
ConsolidateImports(lines, i, needs_stategraph, needs_end, updated) ==
    IF i > Len(lines)
    THEN [lines |-> lines, needs_stategraph |-> needs_stategraph, needs_end |-> needs_end,
          updated |-> updated]
    ELSE ConsolidateMatch(lines, i, needs_stategraph, needs_end, updated,
                          MatchImport(lines[i]))

\* the index of the first code cell, 0 if there is none
FirstCodeCell(cells) ==
    LET code == { i \in 1..Len(cells) : cells[i].cell_type = "code" }
    IN  IF code = {} THEN 0 ELSE Least(code)

\* new_source, given "\n".join(lines) and the names still missing
NewSource(joined, missing_names) ==
    IF missing_names = <<>> THEN joined
    ELSE IF joined # ""
    THEN RStrip(joined) \o "\nfrom langgraph.graph import " \o Join(missing_names, ", ")
    ELSE "from langgraph.graph import " \o Join(missing_names, ", ")

\* after the loop: the consolidated import line, and the cell's new source
ImportsAfterLoop(cells, import_cell_idx, loop) ==
    IF ~loop.updated /\ ~loop.needs_stategraph /\ ~loop.needs_end
    THEN [repaired |-> FALSE, cells |-> cells]
    ELSE [repaired |-> TRUE,
          cells |-> ReplaceAt(cells, import_cell_idx,
                        NewSource(Join(loop.lines, "\n"),
                            (IF loop.needs_stategraph THEN << "StateGraph" >> ELSE <<>>)
                            \o (IF loop.needs_end THEN << "END" >> ELSE <<>>)))]

ImportsNeeded(cells, import_cell_idx, needs_stategraph, needs_end) ==
    IF ~(needs_stategraph \/ needs_end) THEN [repaired |-> FALSE, cells |-> cells]
    ELSE ImportsAfterLoop(cells, import_cell_idx,
             ConsolidateImports(SplitLines(cells[import_cell_idx].source), 1,
                                needs_stategraph, needs_end, FALSE))

ImportsInCell(cells, import_cell_idx, missing_imports) ==
    IF import_cell_idx = 0 THEN [repaired |-> FALSE, cells |-> cells]
    ELSE ImportsNeeded(cells, import_cell_idx,
             /\ \E k \in 1..Len(missing_imports) :
                    Contains(Lower(missing_imports[k]), "langgraph")
             /\ ~Contains(cells[import_cell_idx].source, "StateGraph"),
             /\ \E k \in 1..Len(missing_imports) : Contains(missing_imports[k], "END")
             /\ ~Contains(cells[import_cell_idx].source, "END"))

ImportsFromMatch(cells, match) ==
    IF ~match.matched THEN [repaired |-> FALSE, cells |-> cells]
    ELSE ImportsInCell(cells, FirstCodeCell(cells), StrippedItems(match.group))

_repair_imports(cells, report) ==
    ImportsFromMatch(cells, SearchGroup(report.message.text, "Missing required imports: "))

\* the two cells appended for one section
SectionCells(section) ==
    << [cell_type |-> "markdown",
        source |-> "## " \o Title(section) \o "\n\nGenerated section placeholder.",
        section |-> section],
       [cell_type |-> "code", source |-> "# Section implementation here\npass",
        section |-> section] >>

RECURSIVE ExtendWithSections_InFront(_, _)
RECURSIVE ExtendWithSections(_, _)
\* sections put in front of the notebook instead of after it
ExtendWithSections_InFront(cells, missing_sections) ==
    IF missing_sections = <<>> THEN cells
    ELSE ExtendWithSections_InFront(SectionCells(Strip(Head(missing_sections))) \o cells,
                                    Tail(missing_sections))

ExtendWithSections(cells, missing_sections) ==
    IF missing_sections = <<>> THEN cells
    ELSE ExtendWithSections(cells \o SectionCells(Strip(Head(missing_sections))),
                            Tail(missing_sections))

_repair_sections(cells, report) ==
    LET match == SearchGroup(report.message.text, "Missing required sections: ")
        missing_sections == StrippedItems(match.group)
    IN  IF ~match.matched THEN [repaired |-> FALSE, cells |-> cells]
        ELSE [repaired |-> TRUE, cells |-> ExtendWithSections(cells, missing_sections)]

\* graph_template.strip()
graph_template ==
    "from langgraph.graph import StateGraph, END\nfrom typing import TypedDict\n\n"
    \o "class WorkflowState(TypedDict):\n    messages: list\n\n"
    \o "graph = StateGraph(WorkflowState)\n\n"
    \o "def placeholder_node(state: WorkflowState):\n    return state\n\n"
    \o "graph.add_node(\"start\", placeholder_node)\n"
    \o "graph.set_entry_point(\"start\")\n"
    \o "graph.add_edge(\"start\", END)"

_repair_compilation(cells, report) ==
    LET tagged == { i \in 1..Len(cells) : cells[i].section = "graph" }
        graph_cell_idx == IF tagged = {} THEN 0 ELSE Least(tagged)
        existing_source == cells[graph_cell_idx].source
        with_graph == { i \in 1..Len(cells) :
                           cells[i].cell_type = "code" /\ Contains(cells[i].source, "StateGraph") }
        last == CHOOSE i \in with_graph : \A j \in with_graph : j <= i
        unchanged == [repaired |-> FALSE, cells |-> cells]
    IN  IF Contains(report.message.text, "No StateGraph construction found")
        THEN IF /\ graph_cell_idx # 0
                /\ cells[graph_cell_idx].cell_type = "code"
                /\ ~Contains(existing_source, "StateGraph")
             THEN [repaired |-> TRUE,
                   cells |-> ReplaceAt(cells, graph_cell_idx,
                                 IF Strip(existing_source) # ""
                                 THEN RStrip(existing_source) \o "\n\n" \o graph_template
                                 ELSE graph_template)]
             ELSE unchanged
        ELSE IF Contains(report.message.text, "Graph compilation step (.compile()) not found")
        THEN IF with_graph # {} /\ ~Contains(cells[last].source, ".compile()")
             THEN [repaired |-> TRUE,
                   cells |-> ReplaceAt(cells, last,
                                 RStrip(cells[last].source)
                                     \o "\ncompiled_graph = graph.compile()")]
             ELSE unchanged
        ELSE unchanged

\* "placeholder in modified" on the first code cell whose source is None
PlaceholdersException(cells) ==
    IF \E i \in 1..Len(cells) : cells[i].cell_type = "code" /\ cells[i].source = NoSource
    THEN "TypeError" ELSE "None"

\* "StateGraph" (not) in cell.source on a cell whose source is None: the
\* first cell tagged graph when it is a code cell, or a code cell the
\* backward scan reads before it breaks
CompilationException(cells, report) ==
    LET tagged == { i \in 1..Len(cells) : cells[i].section = "graph" }
        with_graph == { i \in 1..Len(cells) :
                           /\ cells[i].cell_type = "code"
                           /\ cells[i].source # NoSource
                           /\ Contains(cells[i].source, "StateGraph") }
    IN  IF Contains(report.message.text, "No StateGraph construction found")
        THEN IF /\ tagged # {}
                /\ cells[Least(tagged)].cell_type = "code"
                /\ cells[Least(tagged)].source = NoSource
             THEN "TypeError" ELSE "None"
        ELSE IF Contains(report.message.text, "Graph compilation step (.compile()) not found")
        THEN IF \E i \in 1..Len(cells) :
                    /\ cells[i].cell_type = "code"
                    /\ cells[i].source = NoSource
                    /\ \A j \in with_graph : j < i
             THEN "TypeError" ELSE "None"
        ELSE "None"

\* the rule repair_notebook dispatches a failed report to, "None" if none
RuleFor(report) ==
    IF report.check_name = "No Placeholders" THEN "_repair_placeholders"
    ELSE IF report.check_name = "Required Imports" THEN "_repair_imports"
    ELSE IF report.check_name = "Required Sections" THEN "_repair_sections"
    ELSE IF report.check_name = "Graph Compilation" THEN "_repair_compilation"
    ELSE "None"

\* the exception a rule lets out, "None" when it returns
RuleException(rule, cells, report) ==
    IF rule = "_repair_placeholders" THEN PlaceholdersException(cells)
    ELSE IF rule = "_repair_compilation" THEN CompilationException(cells, report)
    ELSE "None"

\* what a rule that returns makes of the notebook
ApplyRule(rule, cells, report) ==
    IF rule = "_repair_placeholders" THEN _repair_placeholders(cells)
    ELSE IF rule = "_repair_imports" THEN _repair_imports(cells, report)
    ELSE IF rule = "_repair_sections" THEN _repair_sections(cells, report)
    ELSE IF rule = "_repair_compilation" THEN _repair_compilation(cells, report)
    ELSE [repaired |-> FALSE, cells |-> cells]

\* a call of a rule: its exception, or the flag it returns and the notebook
CallRule(rule, cells, report) ==
    IF RuleException(rule, cells, report) # "None"
    THEN [exception |-> RuleException(rule, cells, report), repaired |-> FALSE,
          cells |-> cells]
    ELSE [exception |-> "None", repaired |-> ApplyRule(rule, cells, report).repaired,
          cells |-> ApplyRule(rule, cells, report).cells]

RECURSIVE ApplyRepairs(_, _, _, _)

\* one iteration: repaired = self._repair_x(nb, report) or repaired
RepairStep(step, rule, rest, repaired, applied) ==
    ApplyRepairs(step.cells, rest, step.repaired \/ repaired,
                 IF rule = "None" THEN applied ELSE Append(applied, rule))

\* the loop over failed_reports: the notebook, the flag and the rules
\* called; nothing around a rule call catches what the rule raises
ApplyRepairs(cells, failed_reports, repaired, applied) ==
    IF failed_reports = <<>>
    THEN [cells |-> cells, repaired |-> repaired, applied |-> applied, exception |-> "None"]
    ELSE IF RuleException(RuleFor(Head(failed_reports)), cells, Head(failed_reports)) # "None"
    THEN [cells |-> cells, repaired |-> repaired, applied |-> applied,
          exception |-> RuleException(RuleFor(Head(failed_reports)), cells,
                                      Head(failed_reports))]
    ELSE RepairStep(ApplyRule(RuleFor(Head(failed_reports)), cells, Head(failed_reports)),
                    RuleFor(Head(failed_reports)), Tail(failed_reports), repaired, applied)

\* What a call of repair_notebook does: the pair it returns or the exception
\* it lets out, the file it leaves, and whether it read the file, called
\* rules, wrote (or failed to write) and validated.
RepairOutcome(ok, reports, file, did_read, applied, did_write, did_validate) ==
    [success |-> ok, reports |-> reports, file |-> file, read |-> did_read,
     applied |-> applied, wrote |-> did_write, write_failed |-> FALSE,
     validated |-> did_validate, exception |-> "None"]

\* a repair that reports success whatever the new reports say
Revalidated_Optimistic(saved, applied, new_reports) ==
    RepairOutcome(TRUE, new_reports, saved, TRUE, applied, TRUE, TRUE)

\* return all(r.passed for r in new_reports), new_reports
Revalidated(saved, applied, new_reports) ==
    RepairOutcome(AllPassed(new_reports), new_reports, saved, TRUE, applied, TRUE, TRUE)

\* after the loop; write_ok: opening the file for writing succeeds
SaveAndValidate(file, given_reports, write_ok, loop) ==
    IF loop.exception # "None"
    THEN [RepairOutcome(FALSE, given_reports, file, TRUE, loop.applied, FALSE, FALSE)
             EXCEPT !.exception = loop.exception]
    ELSE IF ~loop.repaired
    THEN RepairOutcome(FALSE, given_reports, file, TRUE, loop.applied, FALSE, FALSE)
    ELSE IF ~write_ok
    THEN [RepairOutcome(FALSE, given_reports, file, TRUE, loop.applied, FALSE, FALSE)
             EXCEPT !.write_failed = TRUE]
    ELSE Revalidated([file EXCEPT !.cells = loop.cells], loop.applied,
                     validate_all([file EXCEPT !.cells = loop.cells], {}).value)

\* a repair that goes on with an empty notebook when the file cannot be read
LoadAndRepair_NoGuard(file, given_reports, write_ok) ==
    SaveAndValidate(file, given_reports, write_ok,
        ApplyRepairs(file.cells, FailedReports(given_reports), FALSE, <<>>))

\* after the two early returns: load the notebook and apply the rules
LoadAndRepair(file, given_reports, write_ok) ==
    IF ~Reads(file, FALSE)
    THEN RepairOutcome(FALSE, given_reports, file, TRUE, <<>>, FALSE, FALSE)
    ELSE SaveAndValidate(file, given_reports, write_ok,
             ApplyRepairs(file.cells, FailedReports(given_reports), FALSE, <<>>))

\* repair_notebook without the early return for a list with no failed report
repair_notebook_NoEarlySuccess(file, given_reports, attempt, limit, write_ok) ==
    IF attempt >= limit
    THEN RepairOutcome(FALSE, given_reports, file, FALSE, <<>>, FALSE, FALSE)
    ELSE LoadAndRepair(file, given_reports, write_ok)

\* repair_notebook that still works when attempt = max_attempts
repair_notebook_OneMore(file, given_reports, attempt, limit, write_ok) ==
    IF attempt > limit
    THEN RepairOutcome(FALSE, given_reports, file, FALSE, <<>>, FALSE, FALSE)
    ELSE IF FailedReports(given_reports) = <<>>
    THEN RepairOutcome(TRUE, given_reports, file, FALSE, <<>>, FALSE, FALSE)
    ELSE LoadAndRepair(file, given_reports, write_ok)

repair_notebook(file, given_reports, attempt, limit, write_ok) ==
    IF attempt >= limit
    THEN RepairOutcome(FALSE, given_reports, file, FALSE, <<>>, FALSE, FALSE)
    ELSE IF FailedReports(given_reports) = <<>>
    THEN RepairOutcome(TRUE, given_reports, file, FALSE, <<>>, FALSE, FALSE)
    ELSE LoadAndRepair(file, given_reports, write_ok)

\* ------------------------------------------- the notebooks and the callers
Md(source, section) == [cell_type |-> "markdown", source |-> source, section |-> section]
Code(source, section) == [cell_type |-> "code", source |-> source, section |-> section]

\* The notebooks a caller hands to the validator and the repair agent
Notebooks ==
    { <<>>,
      << Code("# TODO: x", "") >>,
      << Md("# Workflow", "setup"),
         Code("from langgraph.graph import StateGraph, END", "config"),
         Code("graph = StateGraph(dict)\napp = graph.compile()", "graph"),
         Code("app.invoke({})", "execution") >>,
      << Code("from langgraph.graph import StateGraph\ngraph = StateGraph(dict)", "graph") >>,
      << Code("import os", "setup"), Code("x = 1", "graph") >>,
      << Code("def f():\n    ...\n\n\n\nf()", "") >>,
      << Md("## TODO later", "setup") >>,
      << Code("def broken(:", "graph") >>,
      << Code("x = 1  # TOFIXMEDO", "") >>,
      << Code("if True:\n    # Your code here\n    pass  # implement", "") >>,
      << Code("import langgraph\nx = END", "") >>,
      << Md("## Graph", "graph"), Code("x = 1", "graph") >> }

\* the notebooks whose file occurs with an invalid schema: two of the valid
\* ones (with a field the schema does not allow), and one whose code cell
\* has a null source
BadSchemaNotebooks ==
    { << Code("# TODO: x", "") >>,
      << Code("import os", "setup"), Code("x = 1", "graph") >>,
      << Code(NoSource, "") >> }

NotebookFiles ==
    { [kind |-> "missing", cells |-> <<>>], [kind |-> "not_json", cells |-> <<>>] }
    \cup { [kind |-> "ok", cells |-> c] : c \in Notebooks }
    \cup { [kind |-> "bad_schema", cells |-> c] : c \in BadSchemaNotebooks }

\* the sets of checks in which the file cannot be opened: none, or a single
\* check
Faults == { {} } \cup { { c } : c \in Range(CheckNames) }

\* the generator graph is not running
NoRun ==
    /\ pc = "END"
    /\ hist = <<>>
    /\ exc = "None"
    /\ max_repair_attempts = 0
    /\ index_state = "missing"
    /\ constraints = <<>>
    /\ selected_patterns = [primary |-> "None"]
    /\ docs_context = <<>>
    /\ notebook_plan = NoPlan
    /\ architecture_justification = ""
    /\ architecture_type = "None"
    /\ workflow_design = NoDesign
    /\ tools_plan = "None"
    /\ generated_cells = <<>>
    /\ qa_reports = <<>>
    /\ repair_attempts = 0
    /\ artifacts_manifest = NoManifest
    /\ generation_complete = FALSE
    /\ error_message = "None"

\* the reports of an earlier state of the notebook, as in
\* test_repair_notebook_invalid_path: every content check failed
StaleReports == validate_all([kind |-> "ok", cells |-> << Code("# TODO: x", "") >>], {}).value

\* A notebook file on disk, an agent NotebookRepairAgent(max_attempts), the
\* notebook loaded from the file, and the reports the caller holds: none yet,
\* the validator's reports on the file, or reports of an earlier state of it.
NbInit ==
    /\ NoRun
    /\ nb_calls = 0
    /\ nb_last = NoCall
    /\ nb_file \in NotebookFiles
    /\ nb = nb_file.cells
    /\ max_attempts \in 0..MaxAttemptsBound
    /\ nb_reports \in { <<>>, validate_all(nb_file, {}).value, StaleReports }

\* A caller either drives the validator and the agent through validate_all
\* and repair_notebook, or calls the rules on a loaded notebook as the loop of
\* repair_notebook does; the two kinds of run are not mixed.
AgentCalled == nb_last.op \in { "validate_all", "repair_notebook" }
RuleCalled == nb_last.op \notin { "None", "validate_all", "repair_notebook" }

\* the call before this one was validate_all too and returned, the file can
\* be opened in the same checks, and nothing was written in between
Revalidation(faults) ==
    /\ nb_last.op = "validate_all"
    /\ nb_last.faults = faults
    /\ nb_last.exception = "None"

\* a validator that keeps its list of reports from one call to the next
Validated_Accumulating(faults, result) ==
    /\ nb_last' = [NoCall EXCEPT !.op = "validate_all", !.faults = faults,
                                 !.file = nb_file, !.exception = result.exception,
                                 !.reports = nb_last.reports \o result.value,
                                 !.again = Revalidation(faults),
                                 !.qa_reports = IF Revalidation(faults)
                                                THEN nb_last.reports ELSE <<>>]
    /\ nb_reports' = IF result.exception = "None" THEN nb_last.reports \o result.value
                     ELSE nb_reports

\* the caller's state after a call of validate_all; for a revalidation, with
\* the reports the call before returned
Validated(faults, result) ==
    /\ nb_last' = [NoCall EXCEPT !.op = "validate_all", !.faults = faults,
                                 !.file = nb_file, !.exception = result.exception,
                                 !.reports = result.value,
                                 !.again = Revalidation(faults),
                                 !.qa_reports = IF Revalidation(faults)
                                                THEN nb_last.reports ELSE <<>>]
    /\ nb_reports' = IF result.exception = "None" THEN result.value ELSE nb_reports

\* reports = validator.validate_all(notebook_path)
ValidateAll ==
    \E faults \in Faults :
        /\ nb_calls < MaxCalls
        /\ ~RuleCalled
        /\ nb_calls' = nb_calls + 1
        /\ Validated(faults, validate_all(nb_file, faults))
        /\ UNCHANGED << nb_file, nb, max_attempts >>
        /\ UNCHANGED << pc, hist, exc, env, fields >>

\* the caller's state and the file after a call of repair_notebook
Repaired(attempt, write_ok, result) ==
    /\ nb_last' = [NoCall EXCEPT !.op = "repair_notebook", !.attempt = attempt,
                                 !.write_failed = result.write_failed,
                                 !.qa_reports = nb_reports,
                                 !.file = nb_file, !.success = result.success,
                                 !.reports = result.reports, !.read = result.read,
                                 !.applied = result.applied, !.wrote = result.wrote,
                                 !.validated = result.validated,
                                 !.exception = result.exception]
    /\ nb_file' = result.file
    /\ nb_reports' = result.reports

\* success, reports = agent.repair_notebook(notebook_path, reports, attempt)
RepairNotebook ==
    \E attempt \in 0..MaxAttemptsBound, write_ok \in BOOLEAN :
        /\ nb_calls < MaxCalls
        /\ ~RuleCalled
        /\ nb_calls' = nb_calls + 1
        /\ Repaired(attempt, write_ok,
                    repair_notebook(nb_file, nb_reports, attempt, max_attempts, write_ok))
        /\ UNCHANGED << nb, max_attempts >>
        /\ UNCHANGED << pc, hist, exc, env, fields >>

\* the loaded notebook after a rule was called on it
RuleApplied(rule, report, result) ==
    /\ nb_last' = [NoCall EXCEPT !.op = rule, !.report = report, !.cells = nb,
                                 !.repaired = result.repaired,
                                 !.exception = result.exception,
                                 !.again = (nb_last.op = rule /\ nb_last.report = report)]
    /\ nb' = result.cells

\* A repair rule called on the loaded notebook with one failed report the
\* caller holds, as the loop of repair_notebook calls it
RepairRule ==
    \E k \in 1..Len(nb_reports) :
        /\ nb_calls < MaxCalls
        /\ ~AgentCalled
        /\ ~nb_reports[k].passed
        /\ RuleFor(nb_reports[k]) # "None"
        /\ nb_calls' = nb_calls + 1
        /\ RuleApplied(RuleFor(nb_reports[k]), nb_reports[k],
                       CallRule(RuleFor(nb_reports[k]), nb, nb_reports[k]))
        /\ UNCHANGED << nb_file, nb_reports, max_attempts >>
        /\ UNCHANGED << pc, hist, exc, env, fields >>

NbNext ==
    \/ ValidateAll
    \/ RepairNotebook
    \/ RepairRule

NbSpec == NbInit /\ [][NbNext]_vars

\* The generator graph and the notebook QA tools together: a run of the
\* graph, or a caller of the validator and the repair agent while no graph
\* runs
SystemInit == Init \/ NbInit

SystemNext ==
    \/ Next
    \/ (pc = "END" /\ hist = <<>> /\ NbNext)

SystemSpec == SystemInit /\ [][SystemNext]_vars


\* ---------------------------------------------------------------- properties
LastNode == IF hist = <<>> THEN "None" ELSE hist[Len(hist)]

\* `node` was the last to return and the state is the one it left behind
JustRan(node) == LastNode = node /\ pc # "raised"

\* how many times `node` has returned
Count(node) == Cardinality({ i \in 1..Len(hist) : hist[i] = node })

\* a validation pass is static_qa followed by runtime_qa: three checks and
\* the runtime report
PassSize == Len(validate(<<>>)) + 1

\* the reports of the most recent validation pass
LatestPass(reports) ==
    IF Len(reports) <= PassSize THEN reports
    ELSE SubSeq(reports, Len(reports) - PassSize + 1, Len(reports))

Packaged == pc = "END" /\ LastNode = "package_outputs"
\* END reached without package_outputs
Failed == pc = "END" /\ LastNode # "package_outputs"

\* C1: in a final state generation_complete is true only if every report of
\* the most recent validation pass passed.
C1_CompleteOnlyIfLatestPassClean ==
    (pc = "END" /\ generation_complete) => AllPassed(LatestPass(qa_reports))

\* C2: when repair returns with repair_attempts >= max_repair_attempts and a
\* report still fails, the run goes to END and package_outputs is not reached.
C2_ExhaustedRepairFails ==
    ( /\ JustRan("repair")
      /\ repair_attempts >= max_repair_attempts
      /\ ~AllPassed(qa_reports) )
    => pc = "END"

\* C3: a run that ends Failed has a non-empty error_message and
\* generation_complete = false.
C3_FailedRunHasErrorMessage ==
    Failed => (error_message # "None" /\ error_message # "" /\ ~generation_complete)

\* C4: a run ends Failed only when repair_attempts >= max_repair_attempts and
\* at least one report is failing.
C4_FailedOnlyWhenExhausted ==
    Failed => (repair_attempts >= max_repair_attempts /\ ~AllPassed(qa_reports))

\* a run that failed after its repair budget was used up
C4_Witness ==
    /\ Failed
    /\ LastNode = "repair"
    /\ repair_attempts = max_repair_attempts
    /\ max_repair_attempts >= 1

\* C5: repair_attempts equals the number of passes through repair, there are
\* at most max_repair_attempts + 1 validation passes, and unless a stage call
\* fails to return the run reaches END.
C5_AttemptsCountAndTermination ==
    /\ [](repair_attempts = Count("repair"))
    /\ [](Count("runtime_qa") <= max_repair_attempts + 1)
    /\ <>(pc = "END" \/ pc = "raised")

\* a run that went through repair twice and ended
C5_Witness ==
    /\ pc = "END"
    /\ Count("repair") = 2
    /\ repair_attempts = 2
    /\ Count("runtime_qa") = 2

\* C6: repair_attempts never decreases and never exceeds max_repair_attempts.
C6_AttemptsMonotoneAndBounded ==
    /\ [][repair_attempts' >= repair_attempts]_vars
    /\ [](repair_attempts <= max_repair_attempts)

\* the counter has reached a positive maximum
C6_Witness ==
    /\ max_repair_attempts >= 1
    /\ repair_attempts = max_repair_attempts
    /\ LastNode = "repair"

\* C7: after runtime_qa the run goes to package_outputs iff no report fails,
\* to repair iff a report fails and repair_attempts < max_repair_attempts, and
\* to END (Failed) iff a report fails and repair_attempts >= max_repair_attempts.
C7_BranchAfterValidation ==
    JustRan("runtime_qa") =>
        /\ (pc = "package_outputs") <=> AllPassed(qa_reports)
        /\ (pc = "repair") <=> (~AllPassed(qa_reports) /\ repair_attempts < max_repair_attempts)
        /\ (pc = "END") <=> (~AllPassed(qa_reports) /\ repair_attempts >= max_repair_attempts)

\* validation has just failed with no budget left
C7_Witness ==
    /\ JustRan("runtime_qa")
    /\ pc = "END"
    /\ ~AllPassed(qa_reports)

\* C8: two states that agree on qa_reports and repair_attempts get the same
\* decision from should_repair and from check_repair_success, whatever
\* generated_cells holds.
C8_BranchesIgnoreCells ==
    \A cells \in CellChoices :
        LET other == [State EXCEPT !.generated_cells = cells]
        IN  /\ JustRan("runtime_qa") => should_repair(other) = should_repair(State)
            /\ JustRan("repair") => check_repair_success(other) = check_repair_success(State)

\* C9: after every validation pass qa_reports holds exactly the reports of
\* that pass, one per check, and none from an earlier pass.
C9_ReportsReplacedEachPass ==
    JustRan("runtime_qa") => qa_reports = Append(validate(generated_cells), RuntimeReport)

\* C10: a generative-model call that raises never lets the exception leave
\* its stage.
C10_ModelFailureNeverEscapes ==
    ~(pc = "raised" /\ exc = "APIError")


\* C11: whatever text the model returns, no decision stage raises: an
\* exception caused by the shape of a reply never leaves the run.
C11_RepliesNeverRaise ==
    ~(pc = "raised" /\ exc \in {"ValidationError", "AttributeError"})

\* C12: a failing or unavailable retrieval index never aborts the run.
C12_IndexFailureNeverAborts ==
    ~(pc = "raised" /\ exc = "ValueError")

\* set_entry_point and the add_edge chain up to the first branch
LinearStages ==
    << "intake", "rag_retrieval", "architecture_selection", "graph_design",
       "tooling_plan", "notebook_assembly", "static_qa", "runtime_qa" >>

\* C13: the stages run one at a time, the first eight in the fixed order and
\* each once before the first branch; afterwards static_qa runs only right
\* after repair and is always followed by runtime_qa.
C13_StageOrder ==
    /\ \A i \in 1..Len(hist) :
         /\ i <= Len(LinearStages) => hist[i] = LinearStages[i]
         /\ i > Len(LinearStages) =>
              /\ hist[i] \in {"repair", "static_qa", "runtime_qa", "package_outputs"}
              /\ hist[i] = "static_qa" => hist[i - 1] = "repair"
              /\ hist[i] = "runtime_qa" => hist[i - 1] = "static_qa"
              /\ hist[i - 1] = "repair" => hist[i] \in {"static_qa", "package_outputs"}
              /\ hist[i - 1] = "static_qa" => hist[i] = "runtime_qa"
    /\ (pc # "raised" /\ Len(hist) < Len(LinearStages)) => pc = LinearStages[Len(hist) + 1]
    /\ JustRan("static_qa") => pc = "runtime_qa"

\* a run that went round the loop: repair, static_qa, runtime_qa
C13_Witness ==
    /\ Len(hist) >= Len(LinearStages) + 3
    /\ hist[Len(LinearStages) + 1] = "repair"
    /\ hist[Len(LinearStages) + 2] = "static_qa"
    /\ hist[Len(LinearStages) + 3] = "runtime_qa"

\* -------------------------------------------- validator and repair agent
LastCall(op) == nb_last.op = op

\* [r.check_name for r in reports]
Names(reports) == [i \in 1..Len(reports) |-> reports[i].check_name]

\* the structural check of the last validate_all call did not pass
StructuralCheckFailed ==
    ~validate_json_structure(nb_last.file, "JSON Validity" \in nb_last.faults).value.passed

\* C14: validate_all returns exactly one report, the "JSON Validity" report,
\* when the structural check fails, and otherwise exactly the five reports
\* JSON Validity, No Placeholders, Required Sections, Required Imports, Graph
\* Compilation, in this order.
C14_ValidateAllShape ==
    LastCall("validate_all") =>
        /\ nb_last.exception = "None"
        /\ IF StructuralCheckFailed
           THEN Names(nb_last.reports) = << "JSON Validity" >> /\ ~nb_last.reports[1].passed
           ELSE Names(nb_last.reports) = CheckNames /\ nb_last.reports[1].passed

\* a notebook with cells whose schema is invalid was validated: one report
C14_Witness ==
    /\ LastCall("validate_all")
    /\ nb_last.file.kind = "bad_schema"
    /\ nb_last.file.cells # <<>>
    /\ Len(nb_last.reports) = 1

C16_ExhaustedRepairIsNoOp ==
    (LastCall("repair_notebook") /\ nb_last.attempt >= max_attempts) =>
        /\ ~nb_last.success
        /\ nb_last.reports = nb_last.qa_reports
        /\ ~nb_last.wrote
        /\ nb_file = nb_last.file

\* the budget was just used up on a notebook the rules could have changed
C16_Witness ==
    /\ LastCall("repair_notebook")
    /\ nb_last.attempt = max_attempts
    /\ nb_last.file.kind = "ok"
    /\ ApplyRepairs(nb_last.file.cells, FailedReports(nb_last.qa_reports), FALSE, <<>>).repaired

\* C17: repair_notebook with attempt < max_attempts and no failed report in
\* the list returns success = true and the list it was given, and neither
\* reads nor writes the notebook file.
C17_NothingToRepair ==
    (/\ LastCall("repair_notebook")
     /\ nb_last.attempt < max_attempts
     /\ FailedReports(nb_last.qa_reports) = <<>>) =>
        /\ nb_last.success
        /\ nb_last.reports = nb_last.qa_reports
        /\ ~nb_last.read
        /\ ~nb_last.wrote
        /\ nb_file = nb_last.file

\* five passing reports were handed to the agent
C17_Witness ==
    /\ LastCall("repair_notebook")
    /\ nb_last.attempt < max_attempts
    /\ Len(nb_last.qa_reports) = Len(CheckNames)
    /\ AllPassed(nb_last.qa_reports)
    /\ nb_last.success

\* C18: when the notebook file cannot be loaded, repair_notebook called with
\* at least one failed report returns success = false and the reports it was
\* given, calls no rule and writes nothing.
C18_UnloadableFailsClosed ==
    (/\ LastCall("repair_notebook")
     /\ ~Reads(nb_last.file, FALSE)
     /\ FailedReports(nb_last.qa_reports) # <<>>) =>
        /\ ~nb_last.success
        /\ nb_last.reports = nb_last.qa_reports
        /\ nb_last.applied = <<>>
        /\ ~nb_last.wrote
        /\ nb_file = nb_last.file

\* within budget, a missing file and a failed report that has a rule
C18_Witness ==
    /\ LastCall("repair_notebook")
    /\ nb_last.attempt < max_attempts
    /\ nb_last.file.kind = "missing"
    /\ \E k \in 1..Len(nb_last.qa_reports) :
          ~nb_last.qa_reports[k].passed /\ RuleFor(nb_last.qa_reports[k]) # "None"
    /\ nb_last.read

\* the last call was repair_notebook within budget, with a failed report and
\* a notebook that loads
RepairRan ==
    /\ LastCall("repair_notebook")
    /\ nb_last.attempt < max_attempts
    /\ FailedReports(nb_last.qa_reports) # <<>>
    /\ Reads(nb_last.file, FALSE)

\* what the rules made of the notebook in the last repair_notebook call
RulesResult == ApplyRepairs(nb_last.file.cells, FailedReports(nb_last.qa_reports), FALSE, <<>>)

\* the notebook was saved and validated again, and the call returned that
\* fresh batch and whether all of it passed
PersistedAndRevalidated ==
    /\ nb_last.wrote
    /\ nb_last.validated
    /\ nb_file = [nb_last.file EXCEPT !.cells = RulesResult.cells]
    /\ nb_last.reports = validate_all(nb_file, {}).value
    /\ nb_last.success = AllPassed(nb_last.reports)

C20_RulesIdempotent ==
    (nb_last.op \in { "_repair_placeholders", "_repair_imports", "_repair_sections",
                      "_repair_compilation" } /\ nb_last.again) =>
        nb = nb_last.cells /\ ~nb_last.repaired

\* ---- cells across a repair
\* the same cell, whatever its text: its type and its section tag
SameCell(a, b) ==
    /\ a.cell_type = b.cell_type
    /\ "section" \in DOMAIN a => a.section = b.section

\* every cell of before is in after at its old position; after may be longer
KeepsCells(before, after) ==
    /\ Len(after) >= Len(before)
    /\ \A i \in 1..Len(before) : SameCell(before[i], after[i])

\* this step is a call of repair_notebook
RepairNotebookStep == nb_calls' = nb_calls + 1 /\ nb_last'.op = "repair_notebook"

\* this step is a pass through the repair stage of the graph
RepairStageStep == pc = "repair" /\ pc' # "raised"

\* C21: a repair_notebook call, and a pass through the repair stage of the
\* graph, keeps every cell there was at its position: text may be rewritten
\* and cells may be added at the end, none is removed or moved.
C21_RepairKeepsCellOrder ==
    [][/\ RepairNotebookStep => KeepsCells(nb_file.cells, nb_file'.cells)
       /\ RepairStageStep => KeepsCells(generated_cells, generated_cells')]_vars

\* a repair_notebook call rewrote the first cell and added cells after the
\* last one
C21_Witness ==
    /\ LastCall("repair_notebook")
    /\ nb_last.file.cells # <<>>
    /\ Len(nb_file.cells) > Len(nb_last.file.cells)
    /\ nb_file.cells[1].source # nb_last.file.cells[1].source

\* the failed reports of the last repair_notebook call that have a rule
RepairableReports ==
    SelectSeq(FailedReports(nb_last.qa_reports), LAMBDA r : RuleFor(r) # "None")

\* C22: when a repair rule raises during repair_notebook, the rule is skipped,
\* the rules of the other failed reports are still applied, and the call
\* returns a result instead of raising.
C22_RuleErrorsAreSkipped ==
    RepairRan =>
        /\ nb_last.exception = "None"
        /\ \A k \in 1..Len(RepairableReports) :
              \/ RuleFor(RepairableReports[k]) \in Range(nb_last.applied)
              \/ RuleException(RuleFor(RepairableReports[k]), nb_last.file.cells,
                               RepairableReports[k]) # "None"

ReportOf(reports, name) ==
    IF \E k \in 1..Len(reports) : reports[k].check_name = name
    THEN reports[CHOOSE k \in 1..Len(reports) : reports[k].check_name = name]
    ELSE NoReport

\* a notebook whose only cell is the code cell "# TODO: x", without section
TodoNotebook == [kind |-> "ok", cells |-> << Code("# TODO: x", "") >>]

\* repair_notebook was just called, within budget and able to write, on
\* TodoNotebook with the reports validate_all gave for it
TodoNotebookRepaired ==
    /\ LastCall("repair_notebook")
    /\ nb_last.file = TodoNotebook
    /\ nb_last.qa_reports = validate_all(TodoNotebook, {}).value
    /\ nb_last.attempt < max_attempts
    /\ ~nb_last.write_failed

\* C24: for the notebook whose only cell is the code cell "# TODO: x",
\* validate_all reports the placeholder and the required-sections checks as
\* failed; one repair call removes the TODO line and appends cells for every
\* default required section; validate_all on the repaired notebook then
\* returns only passing reports.
C24_TodoNotebookRoundTrip ==
    TodoNotebookRepaired =>
        /\ ~ReportOf(nb_last.qa_reports, "No Placeholders").passed
        /\ ~ReportOf(nb_last.qa_reports, "Required Sections").passed
        /\ \A i \in 1..Len(SplitLines(nb_file.cells[1].source)) :
              ~Contains(SplitLines(nb_file.cells[1].source)[i], ": x")
        /\ \A k \in 1..Len(REQUIRED_SECTIONS) :
              \E i \in 2..Len(nb_file.cells) : nb_file.cells[i].section = REQUIRED_SECTIONS[k]
        /\ AllPassed(validate_all(nb_file, {}).value)

\* ---- the rules one by one
\* the markers _repair_placeholders replaces
KnownMarkers == { "TODO", "FIXME", "PLACEHOLDER", "# Your code here", "pass  # implement" }

HasMarker(text) == \E m \in KnownMarkers : Contains(text, m)

\* the lines of a cell that hold text and no placeholder
PlainLines(source) ==
    LET lines == Split(source, "\n")
    IN  { lines[k] : k \in { j \in 1..Len(lines) :
                                /\ ~HasMarker(lines[j])
                                /\ ~IsEllipsisLine(lines[j])
                                /\ Strip(lines[j]) # "" } }

\* the rule of that name was just called on the loaded notebook and returned
RuleReturned(rule) == LastCall(rule) /\ nb_last.exception = "None"

\* C25: after placeholder repair every code cell has none of the known
\* markers, no line that is only "..." or "# ...", and no run of more than
\* one blank line, and keeps its lines without a placeholder.
C25_PlaceholdersRemoved ==
    RuleReturned("_repair_placeholders") =>
        \A i \in 1..Len(nb) :
            nb[i].cell_type = "code" =>
                /\ ~HasMarker(nb[i].source)
                /\ \A k \in 1..Len(Split(nb[i].source, "\n")) :
                      ~IsEllipsisLine(Split(nb[i].source, "\n")[k])
                /\ ~Contains(nb[i].source, "\n\n\n")
                /\ PlainLines(nb_last.cells[i].source)
                      \subseteq Range(Split(nb[i].source, "\n"))

\* the names a failed Required Imports report gives as missing
ReportedMissing(report) ==
    Range(StrippedItems(SearchGroup(report.message.text, "Missing required imports: ").group))

\* how many lines of a cell are "from langgraph.graph import ..." lines
ImportLines(source) ==
    Cardinality({ k \in 1..Len(SplitLines(source)) : MatchImport(SplitLines(source)[k]).matched })

\* C26: for a failed Required Imports report that names some of langgraph,
\* StateGraph and END as missing, and a notebook with a code cell, the import
\* rule leaves the first code cell containing every reported name, and
\* extends a "from langgraph.graph import" line the cell already has rather
\* than adding a second one.
C26_MissingImportsAdded ==
    (/\ RuleReturned("_repair_imports")
     /\ FirstCodeCell(nb_last.cells) # 0
     /\ ReportedMissing(nb_last.report) # {}
     /\ ReportedMissing(nb_last.report) \subseteq Range(REQUIRED_IMPORTS)) =>
        LET first == FirstCodeCell(nb_last.cells)
        IN  /\ \A name \in ReportedMissing(nb_last.report) : Contains(nb[first].source, name)
            /\ ImportLines(nb_last.cells[first].source) > 0 =>
                  ImportLines(nb[first].source) = ImportLines(nb_last.cells[first].source)

\* the code cells tagged with the graph section
GraphCodeCells(cells) ==
    { i \in 1..Len(cells) : cells[i].cell_type = "code" /\ cells[i].section = "graph" }

\* the compilation rule was called with the report that the construction
\* marker is missing, on a notebook for which that is true
ConstructionMissing ==
    /\ RuleReturned("_repair_compilation")
    /\ Contains(nb_last.report.message.text, "No StateGraph construction found")
    /\ \A i \in 1..Len(nb_last.cells) :
          nb_last.cells[i].cell_type = "code" => ~Contains(nb_last.cells[i].source, "StateGraph")

\* C27: for a failed Graph Compilation report saying that the construction
\* marker is missing, and a notebook with a code cell tagged graph, the
\* compilation rule makes a graph-section code cell end with the StateGraph
\* skeleton, with the text the cell had before still in front of it.
C27_SkeletonInjected ==
    (ConstructionMissing /\ GraphCodeCells(nb_last.cells) # {}) =>
        \E i \in GraphCodeCells(nb_last.cells) :
            /\ Len(nb[i].source) >= Len(graph_template)
            /\ From(nb[i].source, Len(nb[i].source) - Len(graph_template) + 1) = graph_template
            /\ StartsWith(nb[i].source, RStrip(nb_last.cells[i].source))

\* ---- the repair loop of the graph
\* the first validation pass is over and holds a failing report, the notebook
\* is not empty and there is a repair budget
FirstPassFailed ==
    /\ Count("runtime_qa") >= 1
    /\ ~AllPassed(SubSeq(qa_reports, 1, PassSize))
    /\ generated_cells # <<>>
    /\ max_repair_attempts >= 1

\* should_repair never answers "fail" in such a run, and the run ends only
\* in package_outputs, complete, after max_repair_attempts repair passes
RepairsThenPackages ==
    /\ (FirstPassFailed /\ JustRan("runtime_qa")) => should_repair(State) # "fail"
    /\ (FirstPassFailed /\ pc = "END") =>
          /\ Packaged
          /\ generation_complete
          /\ Count("repair") = max_repair_attempts

\* C28: with max_repair_attempts >= 1, a run whose first validation pass
\* holds a failing report and whose generated_cells is not empty makes
\* exactly max_repair_attempts repair passes and then ends in package_outputs
\* with generation_complete true; should_repair never answers "fail" in it.
C28_RepairsExactlyMaxThenPackages ==
    /\ []RepairsThenPackages
    /\ FirstPassFailed ~> pc = "END"

IsPrefix(a, b) == Len(a) <= Len(b) /\ SubSeq(b, 1, Len(a)) = a

\* C29: qa_reports only grows at its end, every recorded report keeping its
\* position; so once a failing report is recorded one stays recorded, and
\* should_repair does not answer "package" again in that run.
C29_ReportsAppendOnly ==
    /\ [][IsPrefix(qa_reports, qa_reports')]_vars
    /\ [][~AllPassed(qa_reports) =>
            (~AllPassed(qa_reports') /\ should_repair(State)' # "package")]_vars

\* a second validation pass was added after the reports of a failed first
C29_Witness ==
    /\ JustRan("runtime_qa")
    /\ Count("runtime_qa") = 2
    /\ Len(qa_reports) = 2 * PassSize
    /\ ~AllPassed(SubSeq(qa_reports, 1, PassSize))
    /\ should_repair(State) # "package"

\* C30: a pass through the repair stage adds exactly 1 to repair_attempts
\* and leaves generated_cells, qa_reports and every other state field as
\* they were; so generated_cells never changes after notebook_assembly.
C30_RepairChangesOnlyAttempts ==
    /\ [][RepairStageStep =>
            /\ repair_attempts' = repair_attempts + 1
            /\ UNCHANGED << constraints, selected_patterns, docs_context, notebook_plan,
                            architecture_justification, architecture_type,
                            workflow_design, tools_plan, generated_cells, qa_reports,
                            artifacts_manifest, generation_complete, error_message >>]_vars
    /\ [][Count("notebook_assembly") >= 1 => generated_cells' = generated_cells]_vars

\* the second repair pass of a run with a non-empty notebook has returned
C30_Witness ==
    /\ LastNode = "repair"
    /\ pc = "package_outputs"
    /\ Count("repair") = 2
    /\ generated_cells # <<>>
    /\ Len(qa_reports) = 2 * PassSize

====
